---- MODULE Spec2Model ----
(***************************************************************************)
(* The Filter Engine of YTLinkerBot (src/link_filter.py) and the command   *)
(* handlers of src/bot.py that drive it.                                   *)
(*                                                                         *)
(* Strings are sequences of one-character strings, so that lower(),        *)
(* strip() and the substring test `in` are computed, not assumed.          *)
(* Python lists are objects on a heap: user_filters maps a user to the     *)
(* identity of a list object, and heap gives each object's content, so     *)
(* that in-place append/remove and the .copy() of the default are visible. *)
(***************************************************************************)
EXTENDS Integers, Sequences, FiniteSets, TLC

\* ------------------------------------------------------------- bounds
\* longest list of words given to setFilters, and the longest filter list
\* addFilter is allowed to grow
MaxWords == 2
\* longest link list given to apply
MaxLinks == 2

\* ------------------------------------------------------------- universe
Users == {"u1", "u2"}
Handlers == {"h1", "h2"}

\* raw words as a user may type them: "T", " w ", " " and ""
RawWords == { <<"T">>, <<" ", "w", " ">>, <<" ">>, <<>> }
\* whitespace-free tokens of a command line (context.args)
Tokens == { <<"T">>, <<"w">> }
\* links "xT" and "wx"
Links == { <<"x", "T">>, <<"w", "x">> }

SeqsUpTo(S, n) == UNION { [1..k -> S] : k \in 0..n }
\* the words of a setFilters call: "T", " w " and ""
SetWords == { <<"T">>, <<" ", "w", " ">>, <<>> }
WordLists == SeqsUpTo(SetWords, MaxWords)
LinkLists == SeqsUpTo(Links, MaxLinks)
ArgLists == SeqsUpTo(Tokens, 1)
FilterArgLists == SeqsUpTo(Tokens, MaxWords)

Range(s) == { s[i] : i \in 1..Len(s) }
Min(S) == CHOOSE x \in S : \A y \in S : x <= y

\* ------------------------------------------------------------- str methods
\* the lower-case letter of each upper-case letter
LowerOf ==
    "A" :> "a" @@ "B" :> "b" @@ "C" :> "c" @@ "D" :> "d" @@ "E" :> "e" @@
    "F" :> "f" @@ "G" :> "g" @@ "H" :> "h" @@ "I" :> "i" @@ "J" :> "j" @@
    "K" :> "k" @@ "L" :> "l" @@ "M" :> "m" @@ "N" :> "n" @@ "O" :> "o" @@
    "P" :> "p" @@ "Q" :> "q" @@ "R" :> "r" @@ "S" :> "s" @@ "T" :> "t" @@
    "U" :> "u" @@ "V" :> "v" @@ "W" :> "w" @@ "X" :> "x" @@ "Y" :> "y" @@
    "Z" :> "z"
\* str.lower(), one character
LowerChar(c) == IF c \in DOMAIN LowerOf THEN LowerOf[c] ELSE c
\* str.lower()
Lower(s) == [i \in 1..Len(s) |-> LowerChar(s[i])]
\* str.strip(): leading and trailing whitespace removed
RECURSIVE LStrip(_)
LStrip(s) == IF s # <<>> /\ Head(s) = " " THEN LStrip(Tail(s)) ELSE s
RECURSIVE RStrip(_)
RStrip(s) ==
    IF s # <<>> /\ s[Len(s)] = " " THEN RStrip(SubSeq(s, 1, Len(s) - 1)) ELSE s
Strip(s) == RStrip(LStrip(s))
\* the substring test `sub in s`
Contains(sub, s) ==
    \E i \in 0..(Len(s) - Len(sub)) : SubSeq(s, i + 1, i + Len(sub)) = sub
\* " ".join(args)
RECURSIVE Join(_)
Join(args) ==
    IF args = <<>> THEN <<>>
    ELSE IF Len(args) = 1 THEN args[1]
    ELSE args[1] \o <<" ">> \o Join(Tail(args))

\* ------------------------------------------------------------- list methods
\* list.remove(x): the first occurrence of x is removed
ListRemove(l, x) ==
    LET i == Min({ k \in 1..Len(l) : l[k] = x })
    IN  SubSeq(l, 1, i - 1) \o SubSeq(l, i + 1, Len(l))

\* ------------------------------------------------------------- state
VARIABLES
    user_filters,   \* LinkFilter.user_filters: user -> list object, or NoEntry
    heap,           \* list object -> its content (object 0 is DEFAULT_FILTER_WORDS)
    last,           \* the call that ran last, with its input and what it returned
    cleared,        \* users whose last set/add/clear call was clearFilters
    frame,          \* each handler coroutine: where it stands and its locals
    serial,         \* the filters obtained by running the committed calls one by one
    pipe            \* the extractor call or message handling that ran last

vars == <<user_filters, heap, last, cleared, frame, serial, pipe>>

\* the absent key of the user_filters dictionary
NoEntry == -1
\* no list object held
NoRef == -2
\* the list object DEFAULT_FILTER_WORDS names
DefaultObj == 0
\* the default keyword list, "t" standing for a default keyword such as "t.me"
DEFAULT_FILTER_WORDS == << <<"t">> >>

\* one object for the default, one per user entry, one per list a handler may
\* hold, and one for the list under construction
ObjIds == 0..(Cardinality(Users) + Cardinality(Handlers) + 1)
slot(u) == IF u = "u1" THEN 1 ELSE 2

\* a LinkFilter with its list objects
Filter(uf, hp) == [uf |-> uf, hp |-> hp]

\* a list object nobody refers to; `dropped` are the users whose entry is
\* being replaced, `pinned` the objects a suspended handler holds
Alloc(lf, u, dropped, pinned) ==
    LET used == {DefaultObj} \cup { lf.uf[v] : v \in Users \ dropped } \cup pinned
    IN  IF slot(u) \notin used THEN slot(u) ELSE Min(ObjIds \ used)

\* unreferenced list objects are reclaimed
Collect(lf, pinned) ==
    LET live == {DefaultObj} \cup { lf.uf[v] : v \in Users } \cup pinned
    IN  [lf EXCEPT !.hp = [o \in ObjIds |-> IF o \in live THEN lf.hp[o] ELSE <<>>]]

\* ------------------------------------------------------------- LinkFilter
\* __init__: no user has an entry
LinkFilterInit ==
    Filter([u \in Users |-> NoEntry],
           [o \in ObjIds |-> IF o = DefaultObj THEN DEFAULT_FILTER_WORDS ELSE <<>>])

\* get_user_filters a caller could be handed by mistake: the default itself
get_user_filters_shared(lf, user_id, pinned) ==
    IF lf.uf[user_id] # NoEntry
    THEN [ref |-> lf.uf[user_id], lf |-> lf]
    ELSE [ref |-> DefaultObj, lf |-> lf]

\* get_user_filters that stores the copy of the default as the user's entry
get_user_filters_setdefault(lf, user_id, pinned) ==
    IF lf.uf[user_id] # NoEntry
    THEN [ref |-> lf.uf[user_id], lf |-> lf]
    ELSE LET o == Alloc(lf, user_id, {}, pinned)
         IN  [ref |-> o, lf |-> [lf EXCEPT !.hp[o] = lf.hp[DefaultObj],
                                           !.uf[user_id] = o]]

\* get_user_filters: the user's own list object, or a fresh copy of the default
get_user_filters(lf, user_id, pinned) ==
    IF lf.uf[user_id] # NoEntry
    THEN [ref |-> lf.uf[user_id], lf |-> lf]
    ELSE LET o == Alloc(lf, user_id, {}, pinned)
         IN  [ref |-> o, lf |-> [lf EXCEPT !.hp[o] = lf.hp[DefaultObj]]]

\* the content getFilters(user_id) shows
Filters(lf, user_id) ==
    LET g == get_user_filters(lf, user_id, {}) IN g.lf.hp[g.ref]

\* the list comprehension of set_user_filters
Normalized(filter_words) ==
    LET kept == SelectSeq(filter_words, LAMBDA word : Strip(word) # <<>>)
    IN  [i \in 1..Len(kept) |-> Strip(Lower(kept[i]))]

\* set_user_filters that trims and lower-cases but keeps the empty tokens
set_user_filters_keep_empty(lf, user_id, filter_words, pinned) ==
    LET o == Alloc(lf, user_id, {user_id}, pinned)
    IN  [lf EXCEPT !.uf[user_id] = o,
                   !.hp[o] = [i \in 1..Len(filter_words) |->
                                 Strip(Lower(filter_words[i]))]]

\* set_user_filters: a new list replaces the entry
set_user_filters(lf, user_id, filter_words, pinned) ==
    LET o == Alloc(lf, user_id, {user_id}, pinned)
    IN  [lf EXCEPT !.uf[user_id] = o, !.hp[o] = Normalized(filter_words)]

\* add_filter_word that stores the list even when nothing was appended
add_filter_word_always_store(lf, user_id, raw, pinned) ==
    LET g == get_user_filters(lf, user_id, pinned)
        current_filters == g.ref
        word == Strip(Lower(raw))
    IN  IF word # <<>> /\ word \notin Range(g.lf.hp[current_filters])
        THEN [g.lf EXCEPT !.hp[current_filters] = Append(@, word),
                          !.uf[user_id] = current_filters]
        ELSE [g.lf EXCEPT !.uf[user_id] = current_filters]

\* add_filter_word that starts a user without an entry from an empty list
add_filter_word_from_empty(lf, user_id, raw, pinned) ==
    LET g == get_user_filters(lf, user_id, pinned)
        current_filters == g.ref
        word == Strip(Lower(raw))
        words == IF lf.uf[user_id] = NoEntry THEN <<>> ELSE g.lf.hp[current_filters]
    IN  IF word # <<>> /\ word \notin Range(words)
        THEN [g.lf EXCEPT !.hp[current_filters] = Append(words, word),
                          !.uf[user_id] = current_filters]
        ELSE lf

\* add_filter_word: append in place to the list get_user_filters gave, store it
add_filter_word(lf, user_id, raw, pinned) ==
    LET g == get_user_filters(lf, user_id, pinned)
        current_filters == g.ref
        word == Strip(Lower(raw))
    IN  IF word # <<>> /\ word \notin Range(g.lf.hp[current_filters])
        THEN [g.lf EXCEPT !.hp[current_filters] = Append(@, word),
                          !.uf[user_id] = current_filters]
        ELSE lf

\* remove_filter_word that stores the list even when the word was not found
remove_filter_word_always_store(lf, user_id, raw, pinned) ==
    LET g == get_user_filters(lf, user_id, pinned)
        current_filters == g.ref
        word == Strip(Lower(raw))
    IN  IF word \in Range(g.lf.hp[current_filters])
        THEN [ok |-> TRUE,
              lf |-> [g.lf EXCEPT !.hp[current_filters] = ListRemove(@, word),
                                  !.uf[user_id] = current_filters]]
        ELSE [ok |-> FALSE, lf |-> [g.lf EXCEPT !.uf[user_id] = current_filters]]

\* remove_filter_word: remove in place from the list get_user_filters gave
remove_filter_word(lf, user_id, raw, pinned) ==
    LET g == get_user_filters(lf, user_id, pinned)
        current_filters == g.ref
        word == Strip(Lower(raw))
    IN  IF word \in Range(g.lf.hp[current_filters])
        THEN [ok |-> TRUE,
              lf |-> [g.lf EXCEPT !.hp[current_filters] = ListRemove(@, word),
                                  !.uf[user_id] = current_filters]]
        ELSE [ok |-> FALSE, lf |-> lf]

\* clear_user_filters that drops the entry, so that the user follows the default
clear_user_filters_reset(lf, user_id, pinned) ==
    [lf EXCEPT !.uf[user_id] = NoEntry]

\* clear_user_filters: a new empty list replaces the entry
clear_user_filters(lf, user_id, pinned) ==
    LET o == Alloc(lf, user_id, {user_id}, pinned)
    IN  [lf EXCEPT !.uf[user_id] = o, !.hp[o] = <<>>]

\* the inner loop of filter_links without the lower-casing of the link
should_exclude_case_sensitive(filter_words, link) ==
    \E k \in 1..Len(filter_words) : Contains(filter_words[k], link)

\* the inner loop of filter_links: some filter word is in the lower-cased link
should_exclude(filter_words, link) ==
    \E k \in 1..Len(filter_words) : Contains(filter_words[k], Lower(link))

\* the outer loop of filter_links over links[1..n]
RECURSIVE filter_loop(_, _, _)
filter_loop(filter_words, links, n) ==
    IF n = 0 THEN [filtered_links |-> <<>>, excluded_count |-> 0]
    ELSE LET r == filter_loop(filter_words, links, n - 1)
         IN  IF should_exclude(filter_words, links[n])
             THEN [r EXCEPT !.excluded_count = @ + 1]
             ELSE [r EXCEPT !.filtered_links = Append(@, links[n])]

\* filter_links that counts every link it looked at as excluded
filter_links_count_all(lf, user_id, links) ==
    LET filter_words == Filters(lf, user_id)
    IN  IF links = <<>> THEN [filtered_links |-> <<>>, excluded_count |-> 0]
        ELSE IF filter_words = <<>>
        THEN [filtered_links |-> links, excluded_count |-> 0]
        ELSE [filter_loop(filter_words, links, Len(links))
                 EXCEPT !.excluded_count = Len(links)]

\* filter_links
filter_links(lf, user_id, links) ==
    LET filter_words == Filters(lf, user_id)
    IN  IF links = <<>> THEN [filtered_links |-> <<>>, excluded_count |-> 0]
        ELSE IF filter_words = <<>>
        THEN [filtered_links |-> links, excluded_count |-> 0]
        ELSE filter_loop(filter_words, links, Len(links))

\* ------------------------------------------------------------- strings of the extractor
Letters ==
    { "a", "b", "c", "d", "e", "f", "g", "h", "i", "j", "k", "l", "m", "n",
      "o", "p", "q", "r", "s", "t", "u", "v", "w", "x", "y", "z", "A", "B",
      "C", "D", "E", "F", "G", "H", "I", "J", "K", "L", "M", "N", "O", "P",
      "Q", "R", "S", "T", "U", "V", "W", "X", "Y", "Z" }
Digits ==
    { "0", "1", "2", "3", "4", "5", "6", "7", "8", "9" }
\* \w of the re module, on ASCII text
WordChars == Letters \cup Digits \cup {"_"}
\* scheme_chars of urllib.parse
SchemeChars == Letters \cup Digits \cup {"+", "-", "."}
\* \s of the re module
SpaceChars == {" ", "\n", "\t"}

Take(s, n) == SubSeq(s, 1, n)
Drop(s, n) == SubSeq(s, n + 1, Len(s))
\* str.startswith
StartsWith(s, prefix) == Len(s) >= Len(prefix) /\ Take(s, Len(prefix)) = prefix
\* the first position of s that holds a character of cs, or 0
FindAny(s, cs) ==
    IF \E i \in 1..Len(s) : s[i] \in cs
    THEN Min({ i \in 1..Len(s) : s[i] \in cs })
    ELSE 0
\* the last position at which sub occurs in s, or 0
RFind(s, sub) ==
    LET at == { i \in 1..(Len(s) - Len(sub) + 1) : SubSeq(s, i, i + Len(sub) - 1) = sub }
    IN  IF at = {} THEN 0 ELSE CHOOSE i \in at : \A j \in at : j <= i
\* s.split(sep)[-1]: what follows the last occurrence of sep
AfterLast(s, sep) ==
    IF RFind(s, sep) = 0 THEN s ELSE Drop(s, RFind(s, sep) + Len(sep) - 1)
\* s.split(sep)[0] for a separator of one character
BeforeFirst(s, c) == IF FindAny(s, {c}) = 0 THEN s ELSE Take(s, FindAny(s, {c}) - 1)
\* s.split(c): the pieces of s between the occurrences of the character c
RECURSIVE Split(_, _)
Split(s, c) ==
    IF FindAny(s, {c}) = 0 THEN <<s>>
    ELSE <<Take(s, FindAny(s, {c}) - 1)>> \o Split(Drop(s, FindAny(s, {c})), c)

\* a Python value that may be None
None == [some |-> FALSE, val |-> <<>>]
Some(v) == [some |-> TRUE, val |-> v]

\* ------------------------------------------------------------- urllib.parse
\* urlsplit: scheme, netloc, path and query of a URL (no fragment is split
\* off a URL without "#")
urlparse(url) ==
    LET colon == FindAny(url, {":"})
        has_scheme == /\ colon > 1
                      /\ url[1] \in Letters
                      /\ \A i \in 1..(colon - 1) : url[i] \in SchemeChars
        scheme == IF has_scheme THEN Lower(Take(url, colon - 1)) ELSE <<>>
        rest == IF has_scheme THEN Drop(url, colon) ELSE url
        has_netloc == StartsWith(rest, <<"/", "/">>)
        after == IF has_netloc THEN Drop(rest, 2) ELSE rest
        stop == FindAny(after, {"/", "?", "#"})
        netloc == IF ~ has_netloc THEN <<>>
                  ELSE IF stop = 0 THEN after ELSE Take(after, stop - 1)
        tail == IF ~ has_netloc THEN rest
                ELSE IF stop = 0 THEN <<>> ELSE Drop(after, stop - 1)
        no_fragment == BeforeFirst(tail, "#")
        mark == FindAny(no_fragment, {"?"})
        host == Lower(BeforeFirst(netloc, ":"))
    IN  [scheme |-> scheme,
         netloc |-> netloc,
         hostname |-> IF host = <<>> THEN None ELSE Some(host),
         path |-> IF mark = 0 THEN no_fragment ELSE Take(no_fragment, mark - 1),
         query |-> IF mark = 0 THEN <<>> ELSE Drop(no_fragment, mark)]

\* parse_qs(query).get(name, [None])[0]: the first non-blank value of the
\* field `name` among the "&"-separated name=value pairs
RECURSIVE first_value(_, _)
first_value(pairs, name) ==
    IF pairs = <<>> THEN None
    ELSE LET pair == Head(pairs)
             eq == FindAny(pair, {"="})
         IN  IF eq # 0 /\ Take(pair, eq - 1) = name /\ Drop(pair, eq) # <<>>
             THEN Some(Drop(pair, eq))
             ELSE first_value(Tail(pairs), name)
parse_qs_get(query, name) == first_value(Split(query, "&"), name)

\* ------------------------------------------------------------- YouTubeExtractor
WWW_YOUTUBE_COM == <<"w", "w", "w", ".", "y", "o", "u", "t", "u", "b", "e", ".", "c", "o", "m">>
YOUTUBE_COM == <<"y", "o", "u", "t", "u", "b", "e", ".", "c", "o", "m">>
M_YOUTUBE_COM == <<"m", ".", "y", "o", "u", "t", "u", "b", "e", ".", "c", "o", "m">>
YOUTU_BE == <<"y", "o", "u", "t", "u", ".", "b", "e">>
WATCH == <<"/", "w", "a", "t", "c", "h">>
EMBED == <<"/", "e", "m", "b", "e", "d", "/">>
LEGACY == <<"/", "v", "/">>

\* the branches of extract_video_id on a parsed URL of any host
video_id_of_any_host(parsed_url) ==
    IF parsed_url.path = WATCH
    THEN parse_qs_get(parsed_url.query, <<"v">>)
    ELSE IF StartsWith(parsed_url.path, EMBED)
    THEN Some(BeforeFirst(AfterLast(parsed_url.path, EMBED), "?"))
    ELSE IF StartsWith(parsed_url.path, LEGACY)
    THEN Some(BeforeFirst(AfterLast(parsed_url.path, LEGACY), "?"))
    ELSE Some(BeforeFirst(Drop(parsed_url.path, 1), "?"))
\* extract_video_id that does not look at the host
extract_video_id_any_host(url) == video_id_of_any_host(urlparse(url))

\* the branches of extract_video_id, the identifier read off the whole URL
video_id_from_url(url, parsed_url) ==
    IF parsed_url.hostname \in {Some(WWW_YOUTUBE_COM), Some(YOUTUBE_COM), Some(M_YOUTUBE_COM)}
    THEN IF parsed_url.path = WATCH
         THEN Some(AfterLast(url, <<"v", "=">>))
         ELSE IF StartsWith(parsed_url.path, EMBED)
         THEN Some(AfterLast(url, EMBED))
         ELSE IF StartsWith(parsed_url.path, LEGACY)
         THEN Some(AfterLast(url, LEGACY))
         ELSE None
    ELSE IF parsed_url.hostname = Some(YOUTU_BE)
    THEN Some(AfterLast(url, <<"/">>))
    ELSE None
\* extract_video_id that reads the identifier off the whole URL, not its path
extract_video_id_from_url(url) == video_id_from_url(url, urlparse(url))

\* the branches of extract_video_id on parsed_url = urlparse(url)
video_id_of(parsed_url) ==
    IF parsed_url.hostname \in {Some(WWW_YOUTUBE_COM), Some(YOUTUBE_COM), Some(M_YOUTUBE_COM)}
    THEN IF parsed_url.path = WATCH
         THEN parse_qs_get(parsed_url.query, <<"v">>)
         ELSE IF StartsWith(parsed_url.path, EMBED)
         THEN Some(BeforeFirst(AfterLast(parsed_url.path, EMBED), "?"))
         ELSE IF StartsWith(parsed_url.path, LEGACY)
         THEN Some(BeforeFirst(AfterLast(parsed_url.path, LEGACY), "?"))
         ELSE None
    ELSE IF parsed_url.hostname = Some(YOUTU_BE)
    THEN Some(BeforeFirst(Drop(parsed_url.path, 1), "?"))
    ELSE None
\* extract_video_id: the video ID of a URL, or None
extract_video_id(url) == video_id_of(urlparse(url))

\* the characters that end a match of https_pattern: \s, <, > and "
LinkStops == SpaceChars \cup {"<", ">", "\""}
HTTPS == <<"h", "t", "t", "p", "s", ":", "/", "/">>
\* the characters re.sub(r'[.,;:!?)}\]]+$', '', link) removes from the end
TrailingPunctuation == {".", ",", ";", ":", "!", "?", ")", "}", "]"}

\* where the match of [^\s<>"]+ that starts at position i ends
RECURSIVE RunEnd(_, _, _)
RunEnd(text, i, stops) ==
    IF i < Len(text) /\ text[i + 1] \notin stops THEN RunEnd(text, i + 1, stops) ELSE i
\* whether https_pattern matches at position i (re.IGNORECASE)
HttpsAt(text, i) ==
    /\ i + Len(HTTPS) <= Len(text)
    /\ Lower(SubSeq(text, i, i + Len(HTTPS) - 1)) = HTTPS
    /\ text[i + Len(HTTPS)] \notin LinkStops
\* https_pattern.findall(text), scanning from position i: the matches that do
\* not overlap, from left to right
RECURSIVE findall_https(_, _)
findall_https(text, i) ==
    IF i > Len(text) THEN <<>>
    ELSE IF HttpsAt(text, i)
    THEN LET e == RunEnd(text, i + Len(HTTPS), LinkStops)
         IN  <<SubSeq(text, i, e)>> \o findall_https(text, e + 1)
    ELSE findall_https(text, i + 1)
\* re.sub(r'[.,;:!?)}\]]+$', '', link)
RECURSIVE strip_trailing(_)
strip_trailing(link) ==
    IF link # <<>> /\ link[Len(link)] \in TrailingPunctuation
    THEN strip_trailing(Take(link, Len(link) - 1))
    ELSE link
\* a clean-up that removes one trailing character only
strip_one(link) ==
    IF link # <<>> /\ link[Len(link)] \in TrailingPunctuation
    THEN Take(link, Len(link) - 1)
    ELSE link
\* the loop of extract_https_links over the matches, cleaned_links so far
RECURSIVE clean_loop(_, _)
clean_loop(links, cleaned_links) ==
    IF links = <<>> THEN cleaned_links
    ELSE LET link == strip_trailing(Head(links))
         IN  clean_loop(Tail(links),
                        IF link # <<>> /\ link \notin Range(cleaned_links)
                        THEN Append(cleaned_links, link)
                        ELSE cleaned_links)
RECURSIVE clean_loop_strip_one(_, _)
clean_loop_strip_one(links, cleaned_links) ==
    IF links = <<>> THEN cleaned_links
    ELSE LET link == strip_one(Head(links))
         IN  clean_loop_strip_one(Tail(links),
                        IF link # <<>> /\ link \notin Range(cleaned_links)
                        THEN Append(cleaned_links, link)
                        ELSE cleaned_links)
\* extract_https_links whose clean-up removes one trailing character only
extract_https_links_strip_one(text) ==
    IF text = <<>> THEN <<>> ELSE clean_loop_strip_one(findall_https(text, 1), <<>>)
\* extract_https_links: the unique HTTPS links of a text
extract_https_links(text) ==
    IF text = <<>> THEN <<>> ELSE clean_loop(findall_https(text, 1), <<>>)

\* what a call of the extractor ends with: a returned pair (success, value),
\* the value being an error message, a description or a list of links, or an
\* exception that leaves the call
Returned(success, error, detail, description, links) ==
    [raised |-> FALSE, success |-> success, error |-> error, detail |-> detail,
     description |-> description, links |-> links]
Failure(error, detail) == Returned(FALSE, error, detail, <<>>, <<>>)
Raised(exception) ==
    [raised |-> TRUE, success |-> FALSE, error |-> exception, detail |-> <<>>,
     description |-> <<>>, links |-> <<>>]

\* the messages get_video_description and process_youtube_url return
VIDEO_NOT_FOUND == "Video not found. The video might be private, deleted, or the URL is invalid."
QUOTA_EXCEEDED == "YouTube API quota exceeded. Please try again later."
ACCESS_FORBIDDEN == "Access forbidden. The video might be private or restricted."
NOT_FOUND == "Video not found. Please check the URL and try again."
API_ERROR == "YouTube API error: {reason}"
UNEXPECTED_ERROR == "An unexpected error occurred: {str(e)}"
INVALID_FORMAT == "Invalid YouTube URL format. Please provide a valid YouTube video URL."
UNKNOWN_REASON == <<"U", "n", "k", "n", "o", "w", "n", " ", "e", "r", "r", "o", "r">>
QUOTA_REASON == <<"q", "u", "o", "t", "a", "E", "x", "c", "e", "e", "d", "e", "d">>

\* what request.execute() does: it returns a response with or without items,
\* raises HttpError with a status and error_details (empty, a list of
\* entries, or the text of a body that is no list of entries), or raises
\* another exception
Items(found, description) ==
    [kind |-> "items", found |-> found, description |-> description,
     status |-> 200, details |-> "empty", reason |-> None]
HttpError(status, details, reason) ==
    [kind |-> "HttpError", found |-> FALSE, description |-> <<>>,
     status |-> status, details |-> details, reason |-> reason]
OtherException ==
    [kind |-> "Exception", found |-> FALSE, description |-> <<>>,
     status |-> 0, details |-> "empty", reason |-> None]

\* the except HttpError clause of get_video_description
on_http_error(e) ==
    IF e.details = "text"
    THEN Raised("AttributeError")
    ELSE LET reason == IF e.details = "entries" /\ e.reason.some
                       THEN e.reason.val ELSE UNKNOWN_REASON
         IN  IF e.status = 403
             THEN IF Contains(QUOTA_REASON, reason)
                  THEN Failure(QUOTA_EXCEEDED, <<>>)
                  ELSE Failure(ACCESS_FORBIDDEN, <<>>)
             ELSE IF e.status = 404
             THEN Failure(NOT_FOUND, <<>>)
             ELSE Failure(API_ERROR, reason)

\* get_video_description: the description of a video, or an error message
get_video_description(video_id, response) ==
    IF response.kind = "items"
    THEN IF ~ response.found
         THEN Failure(VIDEO_NOT_FOUND, <<>>)
         ELSE Returned(TRUE, "", <<>>, response.description, <<>>)
    ELSE IF response.kind = "HttpError"
    THEN on_http_error(response)
    ELSE Failure(UNEXPECTED_ERROR, <<>>)

\* process_youtube_url from `if not success` on: the links of the description
links_of(fetched) ==
    IF fetched.raised THEN fetched
    ELSE IF ~ fetched.success THEN Failure(fetched.error, fetched.detail)
    ELSE Returned(TRUE, "", <<>>, <<>>, extract_https_links(fetched.description))
\* process_youtube_url from `if not video_id` on: the description is fetched
fetch_of(video_id, response) ==
    IF ~ video_id.some \/ video_id.val = <<>>
    THEN Failure(INVALID_FORMAT, <<>>)
    ELSE links_of(get_video_description(video_id.val, response))
\* process_youtube_url: video ID, description, links
process_youtube_url(url, response) == fetch_of(extract_video_id(url), response)

\* ------------------------------------------------------------- YouTubeLinkBot.handle_message
\* whether the literal lit stands at position i of text (re.IGNORECASE)
LitAt(text, i, lit) ==
    /\ i + Len(lit) - 1 <= Len(text)
    /\ Lower(SubSeq(text, i, i + Len(lit) - 1)) = lit
\* [\w-]
IdChars == WordChars \cup {"-"}
\* the alternatives youtube\.com/(?:watch\?v=|embed/|v/) and youtu\.be/ of
\* youtube_url_pattern, in the order the pattern tries them
UrlHeads ==
    << <<"y", "o", "u", "t", "u", "b", "e", ".", "c", "o", "m", "/", "w", "a", "t", "c", "h", "?", "v", "=">>,
       <<"y", "o", "u", "t", "u", "b", "e", ".", "c", "o", "m", "/", "e", "m", "b", "e", "d", "/">>,
       <<"y", "o", "u", "t", "u", "b", "e", ".", "c", "o", "m", "/", "v", "/">>,
       <<"y", "o", "u", "t", "u", ".", "b", "e", "/">> >>
\* the end of the match of (?:youtube\.com/(...)|youtu\.be/)[\w-]+ at
\* position i, or 0
head_match(text, i) ==
    LET fit == { k \in 1..Len(UrlHeads) :
                   /\ LitAt(text, i, UrlHeads[k])
                   /\ i + Len(UrlHeads[k]) <= Len(text)
                   /\ text[i + Len(UrlHeads[k])] \in IdChars }
    IN  IF fit = {} THEN 0
        ELSE RunEnd(text, i + Len(UrlHeads[Min(fit)]), { c \in Range(text) : c \notin IdChars })
\* the end of the match of (?:www\.)? and what follows it at position i, or 0
www_match(text, i) ==
    IF LitAt(text, i, <<"w", "w", "w", ".">>) /\ head_match(text, i + 4) # 0
    THEN head_match(text, i + 4)
    ELSE head_match(text, i)
\* the end of the match of youtube_url_pattern at position i, or 0
pattern_match(text, i) ==
    IF LitAt(text, i, HTTPS) /\ www_match(text, i + 8) # 0
    THEN www_match(text, i + 8)
    ELSE IF LitAt(text, i, <<"h", "t", "t", "p", ":", "/", "/">>) /\ www_match(text, i + 7) # 0
    THEN www_match(text, i + 7)
    ELSE www_match(text, i)
\* youtube_url_pattern.search(text): the leftmost match, or None;
\* youtube_url_pattern.findall(text)[0] is the same substring
youtube_url_pattern_search(text) ==
    LET starts == { i \in 1..Len(text) : pattern_match(text, i) # 0 }
    IN  IF starts = {} THEN None
        ELSE Some(SubSeq(text, Min(starts), pattern_match(text, Min(starts))))

\* what handle_message tells the user
Reply(text, youtube_url, result, shown, excluded_count) ==
    [text |-> text, youtube_url |-> youtube_url, result |-> result,
     shown |-> shown, excluded_count |-> excluded_count]
PLEASE_SEND == "Please send a valid YouTube video URL."
ERROR == "Error: {result}"
NO_LINKS_FOUND == "No HTTPS links found in this video's description."
NO_LINKS_TO_DISPLAY == "No links to display after applying filters."
FOUND_LINKS == "Found {len(filtered_links)} HTTPS link(s):"
AN_UNEXPECTED_ERROR == "An unexpected error occurred: {str(e)}"
NoResult == Returned(FALSE, "", <<>>, <<>>, <<>>)

\* handle_message after filter_links: the links are shown
reply_filtered(found, result, filtered) ==
    IF filtered.filtered_links = <<>>
    THEN Reply(NO_LINKS_TO_DISPLAY, found, result, <<>>, filtered.excluded_count)
    ELSE Reply(FOUND_LINKS, found, result,
               filtered.filtered_links, filtered.excluded_count)
\* handle_message after process_youtube_url, inside the try
reply_result(lf, user_id, found, result) ==
    IF result.raised
    THEN Reply(AN_UNEXPECTED_ERROR, found, result, <<>>, 0)
    ELSE IF ~ result.success
    THEN Reply(ERROR, found, result, <<>>, 0)
    ELSE IF result.links = <<>>
    THEN Reply(NO_LINKS_FOUND, found, result, <<>>, 0)
    ELSE reply_filtered(found, result, filter_links(lf, user_id, result.links))
\* handle_message after youtube_url_pattern.search
reply_found(lf, user_id, response, found) ==
    IF ~ found.some
    THEN Reply(PLEASE_SEND, None, NoResult, <<>>, 0)
    ELSE reply_result(lf, user_id, found, process_youtube_url(found.val, response))
\* handle_message: the reply to a text message of user_id
handle_message(lf, user_id, text, response) ==
    reply_found(lf, user_id, response, youtube_url_pattern_search(Strip(text)))

\* ------------------------------------------------------------- the engine, called directly
\* the extractor call or message handling that ran last: its inputs, the
\* video ID it resolved, what it returned or raised, and the reply it sent
Run(op, input, user, response, video_id, result, reply) ==
    [op |-> op, input |-> input, user |-> user, response |-> response,
     video_id |-> video_id, result |-> result, reply |-> reply]
NoReply == Reply("", None, NoResult, <<>>, 0)
\* no extractor call has run
NoRun == Run("none", <<>>, "", OtherException, None, NoResult, NoReply)

\* the LinkFilter the program holds
LF == Filter(user_filters, heap)

\* what getFilters shows of one entry: whether the user has one, and its words
Entry(lf, u) ==
    [has |-> lf.uf[u] # NoEntry,
     words |-> IF lf.uf[u] # NoEntry THEN lf.hp[lf.uf[u]] ELSE <<>>]
\* the per-user mapping, by content
View(lf) == [u \in Users |-> Entry(lf, u)]

Call(op, u, word, list, ok, out, n) ==
    [op |-> op, user |-> u, word |-> word, list |-> list, ok |-> ok, out |-> out, n |-> n]
NoCall == Call("none", "u1", <<>>, <<>>, FALSE, <<>>, 0)

IdleFrame == [pc |-> "idle", user |-> "u1", reply |-> "none", word |-> <<>>, ref |-> NoRef]

\* the program after construction: LinkFilter.__init__ has run, no handler runs
Init ==
    /\ user_filters = LinkFilterInit.uf
    /\ heap = LinkFilterInit.hp
    /\ last = NoCall
    /\ cleared = {}
    /\ frame = [h \in Handlers |-> IdleFrame]
    /\ serial = LinkFilterInit
    /\ pipe = NoRun

\* the LinkFilter becomes lf, the lists nobody holds any more are reclaimed
Store(lf) ==
    LET c == Collect(lf, {})
    IN  /\ user_filters' = c.uf
        /\ heap' = c.hp

\* getFilters(u) by a caller that only reads the list (get_filter_status)
GetFilters(u) ==
    LET g == get_user_filters(LF, u, {})
    IN  /\ Store(g.lf)
        /\ last' = Call("get", u, <<>>, <<>>, TRUE, g.lf.hp[g.ref], 0)
        /\ UNCHANGED <<cleared, frame, serial, pipe>>

\* getFilters(u) for a user without an entry, by a caller that appends a word
\* to the list it was given and then drops the list
GetFiltersAndMutate(u, raw) ==
    LET g == get_user_filters(LF, u, {})
    IN  /\ user_filters[u] = NoEntry
        /\ Len(g.lf.hp[g.ref]) < MaxWords
        /\ Store([g.lf EXCEPT !.hp[g.ref] = Append(@, raw)])
        /\ last' = Call("mutate", u, raw, <<>>, TRUE, g.lf.hp[g.ref], 0)
        /\ UNCHANGED <<cleared, frame, serial, pipe>>

\* setFilters(u, words)
SetFilters(u, words) ==
    /\ Store(set_user_filters(LF, u, words, {}))
    /\ last' = Call("set", u, <<>>, words, TRUE, <<>>, 0)
    /\ cleared' = cleared \ {u}
    /\ UNCHANGED <<frame, serial, pipe>>

\* addFilter(u, raw); the list is not grown beyond MaxWords
AddFilter(u, raw) ==
    LET lf == add_filter_word(LF, u, raw, {})
    IN  /\ \A v \in Users : Len(Filters(lf, v)) <= MaxWords
        /\ Len(lf.hp[DefaultObj]) <= MaxWords
        /\ Store(lf)
        /\ last' = Call("add", u, raw, <<>>, TRUE, <<>>, 0)
        /\ cleared' = cleared \ {u}
        /\ UNCHANGED <<frame, serial, pipe>>

\* removeFilter(u, raw)
RemoveFilter(u, raw) ==
    LET r == remove_filter_word(LF, u, raw, {})
    IN  /\ Store(r.lf)
        /\ last' = Call("remove", u, raw, <<>>, r.ok, <<>>, 0)
        /\ UNCHANGED <<cleared, frame, serial, pipe>>

\* clearFilters(u)
ClearFilters(u) ==
    /\ Store(clear_user_filters(LF, u, {}))
    /\ last' = Call("clear", u, <<>>, <<>>, TRUE, <<>>, 0)
    /\ cleared' = cleared \cup {u}
    /\ UNCHANGED <<frame, serial, pipe>>

\* apply(u, links)
Apply(u, links) ==
    LET r == filter_links(LF, u, links)
    IN  /\ last' = Call("apply", u, <<>>, links, TRUE, r.filtered_links, r.excluded_count)
        /\ UNCHANGED <<user_filters, heap, cleared, frame, serial, pipe>>

Next ==
    \/ \E u \in Users : GetFilters(u)
    \/ \E u \in Users, raw \in RawWords : GetFiltersAndMutate(u, raw)
    \/ \E u \in Users, words \in WordLists : SetFilters(u, words)
    \/ \E u \in Users, raw \in RawWords : AddFilter(u, raw)
    \/ \E u \in Users, raw \in RawWords : RemoveFilter(u, raw)
    \/ \E u \in Users : ClearFilters(u)
    \/ \E u \in Users, links \in LinkLists : Apply(u, links)

Spec == Init /\ [][Next]_vars

\* ------------------------------------------------------------- the handlers of bot.py
\* Each handler is a coroutine on the one event loop: it runs without
\* interruption from its start to its first await (the reply), and other
\* handlers may run while it waits for the reply to be sent.

\* the list objects held by suspended handlers
Pinned == { frame[h].ref : h \in Handlers } \ {NoRef}

Awaiting(reply) == [IdleFrame EXCEPT !.pc = "reply", !.reply = reply]

\* the handler h ran its calls on the LinkFilter, which became lf, and on the
\* sequential run, which became sq; it now awaits reply_text
Ran(h, lf, sq, reply) ==
    LET c == Collect(lf, Pinned \ {frame[h].ref})
    IN  /\ user_filters' = c.uf
        /\ heap' = c.hp
        /\ serial' = Collect(sq, {})
        /\ frame' = [frame EXCEPT ![h] = Awaiting(reply)]
        /\ UNCHANGED <<last, cleared, pipe>>

\* filter_command: /filter shows the status, /filter w1 w2 .. sets the filters
filter_command(h, user_id, args) ==
    /\ frame[h].pc = "idle"
    /\ IF args = <<>>
       THEN Ran(h, LF, serial, "status")
       ELSE Ran(h, set_user_filters(LF, user_id, args, Pinned),
                set_user_filters(serial, user_id, args, {}), "updated")

\* addfilter_command with add_filter_word suspended between its read of the
\* list and its write of the entry
addfilter_command_suspending(h, user_id, args) ==
    LET keyword == Strip(Join(args))
    IN  \/ /\ frame[h].pc = "idle"
           /\ args # <<>>
           /\ Lower(keyword) \notin Range(Filters(LF, user_id))
           /\ Len(Filters(LF, user_id)) < MaxWords
           /\ LET g == get_user_filters(LF, user_id, Pinned)
                  c == Collect(g.lf, Pinned \cup {g.ref})
              IN  /\ user_filters' = c.uf
                  /\ heap' = c.hp
                  /\ frame' = [frame EXCEPT ![h] =
                        [pc |-> "suspended", user |-> user_id, reply |-> "none",
                         word |-> Strip(Lower(keyword)), ref |-> g.ref]]
           /\ UNCHANGED <<last, cleared, serial, pipe>>
        \/ /\ frame[h].pc = "suspended"
           /\ frame[h].user = user_id
           /\ frame[h].word = Strip(Lower(keyword))
           /\ LET current_filters == frame[h].ref
                  word == frame[h].word
                  lf == IF word # <<>> /\ word \notin Range(heap[current_filters])
                        THEN [LF EXCEPT !.hp[current_filters] = Append(@, word),
                                        !.uf[user_id] = current_filters]
                        ELSE LF
              IN  Ran(h, lf, add_filter_word(serial, user_id, keyword, {}), "added")

\* addfilter_command: /addfilter keyword
addfilter_command(h, user_id, args) ==
    LET keyword == Strip(Join(args))
        current_filters == Filters(LF, user_id)
    IN  /\ frame[h].pc = "idle"
        /\ IF args = <<>>
           THEN Ran(h, LF, serial, "usage")
           ELSE IF Lower(keyword) \in Range(current_filters)
           THEN Ran(h, LF, serial, "already")
           ELSE /\ Len(current_filters) < MaxWords
                /\ Ran(h, add_filter_word(LF, user_id, keyword, Pinned),
                       add_filter_word(serial, user_id, keyword, {}), "added")

\* removefilter_command: /removefilter keyword
removefilter_command(h, user_id, args) ==
    LET keyword == Strip(Join(args))
        r == remove_filter_word(LF, user_id, keyword, Pinned)
        q == remove_filter_word(serial, user_id, keyword, {})
    IN  /\ frame[h].pc = "idle"
        /\ IF args = <<>>
           THEN Ran(h, LF, serial, "usage")
           ELSE Ran(h, r.lf, q.lf, IF r.ok THEN "removed" ELSE "notfound")

\* showfilter_command: /showfilter
showfilter_command(h, user_id) ==
    /\ frame[h].pc = "idle"
    /\ Ran(h, LF, serial, "status")

\* clearfilter_command: /clearfilter
clearfilter_command(h, user_id) ==
    /\ frame[h].pc = "idle"
    /\ Ran(h, clear_user_filters(LF, user_id, Pinned),
           clear_user_filters(serial, user_id, {}), "cleared")

\* the awaited reply_text is done and the handler returns
reply_text(h) ==
    /\ frame[h].pc = "reply"
    /\ frame' = [frame EXCEPT ![h] = IdleFrame]
    /\ UNCHANGED <<user_filters, heap, last, cleared, serial, pipe>>

NextConc ==
    \/ \E h \in Handlers, u \in Users, args \in FilterArgLists : filter_command(h, u, args)
    \/ \E h \in Handlers, u \in Users, args \in ArgLists : addfilter_command(h, u, args)
    \/ \E h \in Handlers, u \in Users, args \in ArgLists : removefilter_command(h, u, args)
    \/ \E h \in Handlers, u \in Users : showfilter_command(h, u)
    \/ \E h \in Handlers, u \in Users : clearfilter_command(h, u)
    \/ \E h \in Handlers : reply_text(h)

SpecConc == Init /\ [][NextConc]_vars

\* ------------------------------------------------------------- the extractor and handle_message, called directly
MaxIdLen == 2
MaxPieces == 5

Schemes == { HTTPS, <<"h", "t", "t", "p", ":", "/", "/">>, <<>> }
EXAMPLE_COM == <<"e", "x", "a", "m", "p", "l", "e", ".", "c", "o", "m">>
Hosts == { WWW_YOUTUBE_COM, YOUTUBE_COM, M_YOUTUBE_COM, YOUTU_BE, EXAMPLE_COM }
WATCH_V == <<"/", "w", "a", "t", "c", "h", "?", "v", "=">>
SLASH == <<"/">>
PathHeads ==
    { WATCH_V, EMBED, LEGACY, SLASH, WATCH,
      <<"/", "w", "a", "t", "c", "h", "?", "x", "=">>,
      <<"/", "p", "l", "a", "y", "l", "i", "s", "t", "/">> }
ID_SHORT == <<"d", "Q", "w", "4", "w", "9", "W", "g", "X", "c", "Q">>
ID_EMBED == <<"a", "b", "c", "1", "2", "3">>
Ids == SeqsUpTo({"a", "T", "-"}, MaxIdLen) \cup { ID_SHORT, ID_EMBED }
MORE_QUERY == <<"&", "x", "=", "1">>
PATH_QUERY == <<"?", "x", "=", "1">>
Extras == { <<>>, MORE_QUERY, PATH_QUERY }
Url(scheme, host, head, id, extra) == scheme \o host \o head \o id \o extra
Urls ==
    { Url(scheme, host, head, id, extra) :
        scheme \in Schemes, host \in Hosts, head \in PathHeads,
        id \in Ids, extra \in Extras }
\* the URLs handed to process_youtube_url and sent in messages
SentUrls ==
    { Url(scheme, host, head, id, <<>>) :
        scheme \in Schemes, host \in Hosts, head \in { WATCH_V, EMBED, SLASH },
        id \in { ID_SHORT, <<>> } }
Messages == SentUrls \cup { <<"s", "e", "e", " ">> \o url : url \in SentUrls }

RECURSIVE Concat(_)
Concat(pieces) == IF pieces = <<>> THEN <<>> ELSE Head(pieces) \o Concat(Tail(pieces))
Pieces == { HTTPS, <<"a">>, <<".">>, <<")">>, <<" ">> }
TEXT_VISIT == <<"V", "i", "s", "i", "t", " ", "h", "t", "t", "p", "s", ":", "/", "/", "a", ".", "c", "o", "m", "/", "x", ".", " ", "A", "l", "s", "o", " ", "h", "t", "t", "p", "s", ":", "/", "/", "b", ".", "c", "o", "m", "/", "y", ")", ",">>
TEXT_TWICE == <<"h", "t", "t", "p", "s", ":", "/", "/", "a", ".", "c", "o", "m", " ", "h", "t", "t", "p", "s", ":", "/", "/", "a", ".", "c", "o", "m">>
TEXT_UPPER == <<"<", "H", "T", "T", "P", "S", ":", "/", "/", "a", ".", "c", "o", "m", "/", "x", "?", "q", "=", "1", "!", ">", " ", "\"", "h", "t", "t", "p", "s", ":", "/", "/", "a", ".", "c", "o", "m", "/", "x", ".", ")", ".", "\"">>
Texts ==
    { Concat(pieces) : pieces \in SeqsUpTo(Pieces, MaxPieces) }
        \cup { TEXT_VISIT, TEXT_TWICE, TEXT_UPPER }
Descriptions == { <<>>, <<"n", "o", " ", "l", "i", "n", "k", "s">>, TEXT_VISIT }
Reasons ==
    { None, Some(QUOTA_REASON), Some(<<"f", "o", "r", "b", "i", "d", "d", "e", "n">>),
      Some(<<"b", "a", "c", "k", "e", "n", "d", "E", "r", "r", "o", "r">>) }
Responses ==
    { Items(FALSE, <<>>), OtherException }
        \cup { Items(TRUE, description) : description \in Descriptions }
        \cup { HttpError(status, "entries", reason) :
                 status \in {403, 404, 500}, reason \in Reasons }
        \cup { HttpError(status, details, None) :
                 status \in {403, 404, 500}, details \in {"empty", "text"} }

\* a call of extract_video_id
ExtractVideoId ==
    /\ pipe.op = "none"
    /\ \E url \in Urls :
          pipe' = Run("extract_video_id", url, "", OtherException,
                      extract_video_id(url), NoResult, NoReply)
    /\ UNCHANGED <<user_filters, heap, last, cleared, frame, serial>>
\* a call of get_video_description, the provider answering with response
GetVideoDescription ==
    /\ pipe.op = "none"
    /\ \E video_id \in { ID_SHORT, ID_EMBED }, response \in Responses :
          pipe' = Run("get_video_description", video_id, "", response, Some(video_id),
                      get_video_description(video_id, response), NoReply)
    /\ UNCHANGED <<user_filters, heap, last, cleared, frame, serial>>
\* a call of extract_https_links
ExtractHttpsLinks ==
    /\ pipe.op = "none"
    /\ \E text \in Texts :
          pipe' = Run("extract_https_links", text, "", OtherException, None,
                      Returned(TRUE, "", <<>>, <<>>, extract_https_links(text)), NoReply)
    /\ UNCHANGED <<user_filters, heap, last, cleared, frame, serial>>
\* a call of process_youtube_url, the provider answering with response
ProcessYoutubeUrl ==
    /\ pipe.op = "none"
    /\ \E url \in SentUrls, response \in Responses :
          pipe' = Run("process_youtube_url", url, "", response,
                      extract_video_id(url), process_youtube_url(url, response), NoReply)
    /\ UNCHANGED <<user_filters, heap, last, cleared, frame, serial>>
\* the run of handle_message that sent reply
Handled(user_id, text, response, reply) ==
    Run("handle_message", text, user_id, response,
        IF reply.youtube_url.some THEN extract_video_id(reply.youtube_url.val) ELSE None,
        reply.result, reply)
\* handle_message for a text message of a user
HandleMessage ==
    /\ pipe.op = "none"
    /\ \E user_id \in Users, text \in Messages, response \in Responses :
          pipe' = Handled(user_id, text, response,
                          handle_message(LF, user_id, text, response))
    /\ UNCHANGED <<user_filters, heap, last, cleared, frame, serial>>
\* the call has returned
Return ==
    /\ pipe.op # "none"
    /\ pipe' = NoRun
    /\ UNCHANGED <<user_filters, heap, last, cleared, frame, serial>>

\* one call at a time
NextPipe ==
    \/ ExtractVideoId
    \/ GetVideoDescription
    \/ ExtractHttpsLinks
    \/ ProcessYoutubeUrl
    \/ HandleMessage
    \/ Return
SpecPipe == Init /\ [][NextPipe]_vars

\* ------------------------------------------------------------- properties
\* the words of a list, lower-cased and trimmed, the empty results dropped
RECURSIVE LowerTrimDrop(_)
LowerTrimDrop(words) ==
    IF words = <<>> THEN <<>>
    ELSE LET w == Strip(Lower(Head(words)))
         IN  IF w = <<>> THEN LowerTrimDrop(Tail(words))
             ELSE <<w>> \o LowerTrimDrop(Tail(words))

\* the orderings of a list
Orderings(l) ==
    { [i \in 1..Len(l) |-> l[p[i]]] :
        p \in { q \in [1..Len(l) -> 1..Len(l)] : \A i, j \in 1..Len(l) : q[i] = q[j] => i = j } }

\* the links of a list that contain no keyword of a set, in their order
KeptLinks(keywords, links) ==
    SelectSeq(links, LAMBDA link : ~ \E kw \in keywords : Contains(kw, Lower(link)))

NoDuplicates(l) == \A i, j \in 1..Len(l) : l[i] = l[j] => i = j

ViewNow == View(LF)
DefaultNow == heap[DefaultObj]

\* C1: whatever the user's filters, apply(u, L) returns kept and excludedCount
\* with len(kept) + excludedCount = len(L) and excludedCount >= 0
C1_CountsAddUp ==
    last.op = "apply" =>
        /\ Len(last.out) + last.n = Len(last.list)
        /\ last.n >= 0
C1_Witness ==
    /\ last.op = "apply"
    /\ last.n >= 1
    /\ Len(last.out) >= 1
    /\ user_filters[last.user] # NoEntry

\* C2: apply(u, L) excludes a link exactly when a keyword of u's filters is a
\* substring of the lower-cased link, keeps the others in their order, and gives
\* the same result for every ordering of the keywords
C2_ExcludesExactlyMatches ==
    last.op = "apply" =>
        LET filter_words == Filters(LF, last.user)
        IN  /\ last.out = KeptLinks(Range(filter_words), last.list)
            /\ last.n = Len(last.list) - Len(last.out)
            /\ \A o \in Orderings(filter_words) :
                  LET r == filter_loop(o, last.list, Len(last.list))
                  IN  r.filtered_links = last.out /\ r.excluded_count = last.n
C2_Witness ==
    /\ last.op = "apply"
    /\ Filters(LF, last.user) = << <<"w">>, <<"t">> >>
    /\ last.list = << <<"x", "T">>, <<"w", "x">> >>
    /\ last.n = 2

\* C3: after setFilters(u, words), getFilters(u) is the list of the words
\* lower-cased and trimmed with the empty ones dropped, whatever it was before
C3_SetReplaces ==
    last.op = "set" =>
        /\ user_filters[last.user] # NoEntry
        /\ Filters(LF, last.user) = LowerTrimDrop(last.list)
C3_Witness ==
    /\ last.op = "set"
    /\ last.list = << <<" ", "w", " ">>, <<>> >>
    /\ Filters(LF, last.user) = << <<"w">> >>

\* C4: from clearFilters(u) to u's next set or add, getFilters(u) is empty (not
\* the default) and apply(u, L) returns (L, 0) for every L
C4_ClearedIsEmpty ==
    \A u \in cleared :
        /\ user_filters[u] # NoEntry
        /\ Filters(LF, u) = <<>>
        /\ \A L \in LinkLists :
              filter_links(LF, u, L) = [filtered_links |-> L, excluded_count |-> 0]
        /\ (last.op = "apply" /\ last.user = u) => (last.out = last.list /\ last.n = 0)
C4_Witness ==
    /\ last.op = "apply"
    /\ last.user \in cleared
    /\ Len(last.list) = MaxLinks
    /\ DefaultNow # <<>>

\* C5: whenever removeFilter(u, w) returns true, the normalized w is no longer
\* in getFilters(u) and no link is excluded on account of it
C5_RemovedWordIsGone ==
    (last.op = "remove" /\ last.ok) =>
        LET word == Strip(Lower(last.word))
            filter_words == Filters(LF, last.user)
        IN  /\ word \notin Range(filter_words)
            /\ \A link \in Links :
                  should_exclude(filter_words, link) =>
                      \E kw \in Range(filter_words) :
                          kw # word /\ Contains(kw, Lower(link))

\* C6: removeFilter(u, w) of a word that is not in getFilters(u) returns false
\* and leaves the per-user mapping as it was; a user without an entry has none
C6_RemoveAbsentStep ==
    (/\ last'.op = "remove"
     /\ Strip(Lower(last'.word)) \notin Range(Filters(LF, last'.user)))
        => (~ last'.ok /\ ViewNow' = ViewNow)
C6_RemoveAbsentIsNoOp == [][C6_RemoveAbsentStep]_vars
C6_Witness ==
    /\ last.op = "remove"
    /\ ~ last.ok
    /\ last.word = <<" ", "w", " ">>
    /\ user_filters[last.user] = NoEntry

\* C7: addFilter(u, w) leaves the per-user mapping as it was when the
\* normalized w is empty or already in getFilters(u), also through the default;
\* and a second addFilter(u, w) changes nothing
C7_AddPresentStep ==
    last'.op = "add" =>
        LET word == Strip(Lower(last'.word))
        IN  /\ (word = <<>> \/ word \in Range(Filters(LF, last'.user)))
                => ViewNow' = ViewNow
            /\ View(add_filter_word(Filter(user_filters', heap'),
                                    last'.user, last'.word, {})) = ViewNow'
C7_AddPresentIsNoOp == [][C7_AddPresentStep]_vars
C7_Witness ==
    /\ last.op = "add"
    /\ last.word = <<"T">>
    /\ user_filters[last.user] = NoEntry

\* C8: the default list stays what it was: getFilters(v) of every user without
\* an entry is the original default, also after a caller changed the list it
\* was given for such a user
C8_DefaultIntact ==
    /\ DefaultNow = DEFAULT_FILTER_WORDS
    /\ \A v \in Users :
          user_filters[v] = NoEntry => Filters(LF, v) = DEFAULT_FILTER_WORDS
    /\ (last.op \in {"get", "mutate"} /\ user_filters[last.user] = NoEntry)
          => last.out = DEFAULT_FILTER_WORDS
C8_Witness ==
    /\ last.op = "get"
    /\ user_filters[last.user] = NoEntry
    /\ \E u \in Users : user_filters[u] # NoEntry /\ Len(heap[user_filters[u]]) = 2

\* C9: no keyword occurs twice in getFilters(u)
C9_NoDuplicateKeyword ==
    \A u \in Users : NoDuplicates(Filters(LF, u))

\* C10: the add/remove/set/clear calls of handlers that overlap in time leave
\* every user's filters as the same calls run one after the other (in the
\* order in which they completed) leave them, also when the entry is first
\* created from the default: no update is lost, and a getFilters issued after
\* a call reflects it
C10_CallsAreAtomic ==
    /\ View(LF) = View(serial)
    /\ \A u \in Users : Filters(LF, u) = Filters(serial, u)
C10_Witness ==
    /\ frame["h1"].reply = "added"
    /\ frame["h2"].reply = "removed"
    /\ user_filters["u1"] # NoEntry
    /\ user_filters["u2"] = NoEntry
    /\ Filters(LF, "u1") = << <<"w">> >>

\* ------------------------------------------------------------- properties of the extractor
\* the hosts of the hosting domain
HostingHosts == { WWW_YOUTUBE_COM, YOUTUBE_COM, M_YOUTUBE_COM }
\* the URL schemes
AbsoluteSchemes == Schemes \ { <<>> }
\* a video ID: one character of [\w-] or more
Identifiers == Ids \ { <<>> }
\* the URLs of the four shapes, each with the identifier it carries: the
\* /watch?v=ID, /embed/ID and /v/ID forms on the hosting domain and the
\* youtu.be/ID form, alone or followed by one more query parameter
ShapedUrls ==
    { [url |-> Url(scheme, host, WATCH_V, id, extra), id |-> id] :
        scheme \in AbsoluteSchemes, host \in HostingHosts,
        id \in Identifiers, extra \in { <<>>, MORE_QUERY } }
    \cup
    { [url |-> Url(scheme, host, head, id, extra), id |-> id] :
        scheme \in AbsoluteSchemes, host \in HostingHosts, head \in { EMBED, LEGACY },
        id \in Identifiers, extra \in { <<>>, PATH_QUERY } }
    \cup
    { [url |-> Url(scheme, YOUTU_BE, SLASH, id, extra), id |-> id] :
        scheme \in AbsoluteSchemes, id \in Identifiers, extra \in { <<>>, PATH_QUERY } }
\* C11: for every identifier, extract_video_id returns that same identifier
\* for the /watch?v=ID, the /embed/ID, the /v/ID and the youtu.be/ID form of
\* a URL, also when more query parameters follow the identifier
C11_SameIdentifier ==
    pipe.op = "extract_video_id" =>
        \A shaped \in ShapedUrls :
            pipe.input = shaped.url => pipe.video_id = Some(shaped.id)
C11_Witness ==
    /\ pipe.op = "extract_video_id"
    /\ pipe.input = Url(HTTPS, WWW_YOUTUBE_COM, EMBED, ID_EMBED, PATH_QUERY)
    /\ pipe.video_id = Some(ID_EMBED)

\* what `if not video_id` takes for no identifier: None or the empty string
NoIdentifier(video_id) == ~ video_id.some \/ video_id.val = <<>>
\* the URLs whose host is not a hosting or short-link host, or whose path
\* carries no identifier: a path prefix that is none of /watch, /embed/ and
\* /v/, a /watch that has no v parameter, and nothing after /watch?v=,
\* /embed/, /v/ or the slash of the short link
UnresolvableUrls ==
    { Url(scheme, EXAMPLE_COM, head, id, extra) :
        scheme \in Schemes, head \in PathHeads, id \in Ids, extra \in Extras }
    \cup
    { Url(scheme, host, head, id, extra) :
        scheme \in Schemes, host \in HostingHosts,
        head \in PathHeads \ { WATCH_V, EMBED, LEGACY },
        id \in Ids, extra \in Extras }
    \cup
    { Url(scheme, host, WATCH_V, <<>>, extra) :
        scheme \in Schemes, host \in HostingHosts, extra \in { <<>>, MORE_QUERY } }
    \cup
    { Url(scheme, host, head, <<>>, extra) :
        scheme \in Schemes, host \in HostingHosts, head \in { EMBED, LEGACY },
        extra \in { <<>>, PATH_QUERY } }
    \cup
    { Url(scheme, YOUTU_BE, SLASH, <<>>, extra) :
        scheme \in Schemes, extra \in { <<>>, PATH_QUERY } }
\* C12: for a URL of an unrecognized host, or whose path carries no
\* identifier, extract_video_id returns no identifier, and
\* process_youtube_url returns the invalid-format failure whatever the
\* provider would answer
C12_NoIdentifierIsInvalidFormat ==
    pipe.op \in { "extract_video_id", "process_youtube_url" }
        /\ pipe.input \in UnresolvableUrls =>
            /\ NoIdentifier(pipe.video_id)
            /\ pipe.op = "process_youtube_url" =>
                   pipe.result = Failure(INVALID_FORMAT, <<>>)
C12_Witness ==
    /\ pipe.op = "process_youtube_url"
    /\ pipe.input = Url(HTTPS, WWW_YOUTUBE_COM, EMBED, <<>>, <<>>)
    /\ pipe.response = Items(TRUE, TEXT_VISIT)
    /\ pipe.video_id = Some(<<>>)
    /\ pipe.result = Failure(INVALID_FORMAT, <<>>)

\* C13: every URL that youtube_url_pattern finds in a message, with or
\* without a scheme, with or without www., is resolved to the identifier it
\* ends with, and is not rejected as an invalid format
C13_AcceptedUrlIsResolved ==
    pipe.op = "handle_message" /\ pipe.reply.youtube_url.some =>
        /\ ~ NoIdentifier(pipe.video_id)
        /\ \E k \in 0..Len(pipe.reply.youtube_url.val) :
               pipe.video_id.val = Drop(pipe.reply.youtube_url.val, k)
        /\ pipe.result.error # INVALID_FORMAT

\* the links occur in the text from position i on, one after the other
RECURSIVE InOrderOfAppearance(_, _, _)
InOrderOfAppearance(links, text, i) ==
    \/ links = <<>>
    \/ \E at \in i..(Len(text) - Len(Head(links)) + 1) :
          /\ SubSeq(text, at, at + Len(Head(links)) - 1) = Head(links)
          /\ InOrderOfAppearance(Tail(links), text, at + 1)
\* C14: extract_https_links returns a list in which no link occurs twice, no
\* link ends with one of . , ; : ! ? ) } ] however many of them the text
\* stacked, no link is empty, and the links stand in the order in which they
\* appear in the text; the text "Visit https://a.com/x. Also https://b.com/y),"
\* gives https://a.com/x and https://b.com/y
C14_LinkList ==
    pipe.op = "extract_https_links" =>
        LET links == pipe.result.links IN
        /\ NoDuplicates(links)
        /\ \A k \in 1..Len(links) :
              /\ links[k] # <<>>
              /\ links[k][Len(links[k])] \notin TrailingPunctuation
        /\ InOrderOfAppearance(links, pipe.input, 1)
        /\ pipe.input = TEXT_VISIT =>
              links = << <<"h", "t", "t", "p", "s", ":", "/", "/", "a", ".", "c", "o", "m", "/", "x">>,
                         <<"h", "t", "t", "p", "s", ":", "/", "/", "b", ".", "c", "o", "m", "/", "y">> >>
        /\ pipe.input = TEXT_TWICE => links = << <<"h", "t", "t", "p", "s", ":", "/", "/", "a", ".", "c", "o", "m">> >>
\* two matches that differ in their stacked trailing punctuation only
TEXT_STACKED == Concat(<< HTTPS, <<".">>, <<" ">>, HTTPS, <<")">> >>)
C14_Witness ==
    /\ pipe.op = "extract_https_links"
    /\ pipe.input = TEXT_STACKED
    /\ pipe.result.links = << HTTPS >>

\* the error of the taxonomy that a returned message stands for
ErrorType(result) ==
    IF result.raised THEN "uncaught"
    ELSE IF result.success THEN "none"
    ELSE IF result.error = INVALID_FORMAT THEN "InvalidFormat"
    ELSE IF result.error \in { VIDEO_NOT_FOUND, NOT_FOUND } THEN "NotFound"
    ELSE IF result.error = ACCESS_FORBIDDEN THEN "Forbidden"
    ELSE IF result.error = QUOTA_EXCEEDED THEN "QuotaExceeded"
    ELSE IF result.error = API_ERROR THEN "ProviderError"
    ELSE IF result.error = UNEXPECTED_ERROR THEN "UnknownError"
    ELSE "other"
\* the typed result that belongs to a provider outcome
TypedResult(response) ==
    IF response.kind = "items"
    THEN IF response.found THEN "none" ELSE "NotFound"
    ELSE IF response.kind = "HttpError"
    THEN IF response.status = 403
         THEN IF response.details = "entries" /\ response.reason = Some(QUOTA_REASON)
              THEN "QuotaExceeded" ELSE "Forbidden"
         ELSE IF response.status = 404 THEN "NotFound"
         ELSE "ProviderError"
    ELSE "UnknownError"
\* C15: get_video_description maps every provider outcome to its typed
\* result: no item to NotFound, status 403 to QuotaExceeded when the reason
\* is quotaExceeded and to Forbidden otherwise, status 404 to NotFound, any
\* other status to ProviderError, any other failure to UnknownError, and it
\* returns a description only when an item was found
C15_TypedResults ==
    pipe.op = "get_video_description" =>
        /\ ErrorType(pipe.result) = TypedResult(pipe.response)
        /\ pipe.result.success =>
              /\ pipe.response.kind = "items" /\ pipe.response.found
              /\ pipe.result.description = pipe.response.description
        /\ ~ pipe.result.success => pipe.result.description = <<>>

\* C16: get_video_description and process_youtube_url end by returning
\* (True, links) or (False, error) for every input and every provider
\* outcome, none ends with an exception, and handle_message ends with a reply
C16_ErrorsAreValues ==
    pipe.op \in { "get_video_description", "process_youtube_url", "handle_message" } =>
        /\ ~ pipe.result.raised
        /\ pipe.op = "handle_message" => pipe.reply.text # ""

\* the description holds a secure link
HasSecureLink(text) == \E i \in 1..Len(text) : HttpsAt(text, i)
\* C17: process_youtube_url returns (True, []) exactly when the URL resolved,
\* the fetch succeeded and the description holds no secure link, and every
\* failure to resolve or to fetch returns (False, error) and no list of links
C17_EmptySuccess ==
    pipe.op = "process_youtube_url" =>
        LET resolved == ~ NoIdentifier(pipe.video_id)
            fetched == resolved /\ pipe.response.kind = "items" /\ pipe.response.found
        IN  /\ (~ pipe.result.raised /\ pipe.result.success /\ pipe.result.links = <<>>)
                  <=> (fetched /\ ~ HasSecureLink(pipe.response.description))
            /\ ~ fetched =>
                  /\ ~ pipe.result.raised
                  /\ ~ pipe.result.success
                  /\ pipe.result.error # ""
                  /\ pipe.result.links = <<>>

\* ------------------------------------------------------------- properties of the per-user state
\* C18: a getFilters, setFilters, addFilter, removeFilter, clearFilters or
\* apply call for user u leaves getFilters(v) of every other user v as it
\* was, in any order of the users' calls; getFilters and apply leave the
\* whole per-user mapping as it was and give a user without an entry none
C18_IsolationStep ==
    /\ \A v \in Users \ { last'.user } :
          Filters(Filter(user_filters', heap'), v) = Filters(LF, v)
    /\ last'.op \in { "get", "apply" } => ViewNow' = ViewNow
C18_IsolatedPerUser == [][C18_IsolationStep]_vars
C18_Witness ==
    /\ last.op = "apply"
    /\ last.list # <<>>
    /\ user_filters[last.user] = NoEntry
    /\ \E v \in Users \ { last.user } :
          user_filters[v] # NoEntry /\ Filters(LF, v) # DEFAULT_FILTER_WORDS

\* C19: the first addFilter or removeFilter of a user without an entry starts
\* from the default: addFilter(u, w) with a new, non-empty normalized w
\* leaves the default keywords followed by w, removeFilter(u, d) of a default
\* keyword d returns true and leaves the default keywords without d, and a
\* user who has an entry keeps one, in a list of their own
C19_FirstChangeStep ==
    LET u == last'.user
        word == Strip(Lower(last'.word))
        after == Filters(Filter(user_filters', heap'), u)
    IN  /\ (/\ last'.op = "add"
            /\ user_filters[u] = NoEntry
            /\ word # <<>>
            /\ word \notin Range(DEFAULT_FILTER_WORDS))
               => /\ after = DEFAULT_FILTER_WORDS \o <<word>>
                  /\ user_filters'[u] \notin { NoEntry, DefaultObj }
        /\ (/\ last'.op = "remove"
            /\ user_filters[u] = NoEntry
            /\ word \in Range(DEFAULT_FILTER_WORDS))
               => /\ last'.ok
                  /\ after = SelectSeq(DEFAULT_FILTER_WORDS, LAMBDA d : d # word)
                  /\ user_filters'[u] \notin { NoEntry, DefaultObj }
        /\ \A v \in Users :
              user_filters[v] # NoEntry => user_filters'[v] \notin { NoEntry, DefaultObj }
C19_FirstChangeStartsFromDefault == [][C19_FirstChangeStep]_vars
C19_Witness ==
    /\ last.op = "add"
    /\ last.word = <<" ", "w", " ">>
    /\ Filters(LF, last.user) = DEFAULT_FILTER_WORDS \o << <<"w">> >>
    /\ \E v \in Users \ { last.user } : user_filters[v] = NoEntry

====
